---- MODULE Spec2Model ----
(***************************************************************************)
(* Model of src/src/extension.ts: the membership cache (fileIsListed with  *)
(* CACHE and CONFIG_CACHE), the best-match selection (getMostSimilarPath)  *)
(* and the command handler registered by activate.                         *)
(*                                                                         *)
(* Paths and texts are sequences of one-character strings.  The code only  *)
(* gets past findAePath on win32 (lines 170-177), so path.sep is "\".      *)
(***************************************************************************)
EXTENDS Integers, Sequences, FiniteSets, TLC

VARIABLES
    CACHE,          \* Map<fileName, {configPath, found}>        (line 42)
    CONFIG_CACHE,   \* Map<configPath, mtimeMs>                  (line 40)
    mtime,          \* disk: configPath -> modification time of the file
    project,        \* disk: root directory -> files tsc lists for it
    inv,            \* one record per command invocation slot
    last,           \* history: the fileIsListed call that completed last
    run,            \* history: the command invocation that finished last
    mp,             \* getMostSimilarPath harness: argument p
    mps,            \* getMostSimilarPath harness: argument ps
    mout            \* getMostSimilarPath harness: outcome of the call

vars == <<CACHE, CONFIG_CACHE, mtime, project, inv, last, run, mp, mps, mout>>

cacheVars == <<CACHE, CONFIG_CACHE, mtime, project, inv, last, run>>
matchVars == <<mp, mps, mout>>

----------------------------------------------------------------------------
(* Bounds *)

MaxTime  == 3     \* modification times are 1..MaxTime
NumInv   == 2     \* command invocation slots
MaxCands == 3     \* longest candidate sequence given to getMostSimilarPath

----------------------------------------------------------------------------
(* Texts *)

Max(a, b) == IF a >= b THEN a ELSE b
Min(a, b) == IF a <= b THEN a ELSE b

EmptyMap == <<>>

\* Map.set(k, v)
MapSet(m, k, v) == (k :> v) @@ m

IsSpace(ch) == ch \in {" ", "\r", "\t"}

RECURSIVE TrimLeft(_)
TrimLeft(t) ==
    IF t # <<>> /\ IsSpace(Head(t)) THEN TrimLeft(Tail(t)) ELSE t

RECURSIVE TrimRight(_)
TrimRight(t) ==
    IF t # <<>> /\ IsSpace(t[Len(t)]) THEN TrimRight(SubSeq(t, 1, Len(t) - 1)) ELSE t

\* String.prototype.trim
Trim(t) == TrimRight(TrimLeft(t))

\* path.sep of the only platform that reaches the cache
PathSep == "\\"

\* text.replace(/\//g, path.sep), skipped when path.sep is "/"
NormSep(t) ==
    IF PathSep = "/" THEN t
    ELSE [k \in 1..Len(t) |-> IF t[k] = "/" THEN PathSep ELSE t[k]]

LowerOf(ch) ==
    CASE ch = "J" -> "j"
      [] ch = "S" -> "s"
      [] ch = "T" -> "t"
      [] ch = "X" -> "x"
      [] OTHER -> ch

\* String.prototype.toLowerCase
ToLower(t) == [k \in 1..Len(t) |-> LowerOf(t[k])]

StartsWith(t, prefix) ==
    /\ Len(t) >= Len(prefix)
    /\ SubSeq(t, 1, Len(prefix)) = prefix

EndsWith(t, suffix) ==
    /\ Len(t) >= Len(suffix)
    /\ SubSeq(t, Len(t) - Len(suffix) + 1, Len(t)) = suffix

----------------------------------------------------------------------------
(* path.extname (win32): the extension of the last path component *)

IsSep(ch) == ch \in {"/", "\\"}

\* index of the last character that is not a trailing separator, 0 if none
PartEnd(p) ==
    LET ks == {k \in 1..Len(p) : ~IsSep(p[k])}
    IN  IF ks = {} THEN 0 ELSE CHOOSE k \in ks : \A j \in ks : j <= k

\* index of the first character of the last path component
PartStart(p) ==
    LET e  == PartEnd(p)
        ks == {k \in 1..Len(p) : k < e /\ IsSep(p[k])}
    IN  IF ks = {} THEN 1 ELSE 1 + (CHOOSE k \in ks : \A j \in ks : j <= k)

\* index of the last "." of the last path component, 0 if none
LastDot(p) ==
    LET ks == {k \in PartStart(p)..PartEnd(p) : p[k] = "."}
    IN  IF ks = {} THEN 0 ELSE CHOOSE k \in ks : \A j \in ks : j <= k

extname(p) ==
    LET e  == PartEnd(p)
        s  == PartStart(p)
        d  == LastDot(p)
    IN  IF \/ e = 0
           \/ d = 0
           \/ d = s                                   \* ".bashrc"
           \/ (p[s] = "." /\ d = e /\ d = s + 1)      \* ".."
        THEN <<>>
        ELSE SubSeq(p, d, e)

----------------------------------------------------------------------------
(* getMostSimilarPath *)

\* const removeExt = (p) => p.substring(0, p.length - path.extname(p).length)
removeExt(p) == SubSeq(p, 1, Len(p) - Len(extname(p)))

\* the loop of lines 113-120: i runs from 0 while the characters agree
RECURSIVE ScoreLoop(_, _, _, _, _)
ScoreLoop(pBase, cBase, len, i, score) ==
    IF i < len
    THEN IF pBase[Len(pBase) - i] = cBase[Len(cBase) - i]
         THEN ScoreLoop(pBase, cBase, len, i + 1, score + 1)
         ELSE score
    ELSE score

Score(p, c) ==
    LET pBase == removeExt(p)
        cBase == removeExt(c)
    IN  ScoreLoop(pBase, cBase, Min(Len(pBase), Len(cBase)), 0, 0)

\* a comparator that never answers 0
Compare_NoTie(lhs, rhs) ==
    IF rhs.score < lhs.score THEN -1 ELSE 1

\* the comparator given to arr.sort
Compare(lhs, rhs) ==
    IF rhs.score < lhs.score THEN -1
    ELSE IF rhs.score > lhs.score THEN 1
    ELSE 0

\* Array.prototype.sort is stable (ECMAScript 2019; the insertion sort V8
\* used before that for arrays of at most 10 elements is stable as well).
RECURSIVE SortInsert(_, _)
SortInsert(sorted, x) ==
    IF sorted = <<>> THEN <<x>>
    ELSE LET y == sorted[Len(sorted)]
         IN  IF Compare(y, x) > 0
             THEN Append(SortInsert(SubSeq(sorted, 1, Len(sorted) - 1), x), y)
             ELSE Append(sorted, x)

RECURSIVE SortFrom(_, _, _)
SortFrom(arr, k, sorted) ==
    IF k > Len(arr) THEN sorted
    ELSE SortFrom(arr, k + 1, SortInsert(sorted, arr[k]))

Sort(arr) == SortFrom(arr, 1, <<>>)

Scored(p, ps) == [k \in 1..Len(ps) |-> [path |-> ps[k], score |-> Score(p, ps[k])]]

\* a selection that reads arr[1], the second element of the sorted array
getMostSimilarPath_Second(p, ps) ==
    LET arr == Sort(Scored(p, ps))
    IN  IF Len(arr) < 2
        THEN [kind |-> "TypeError", path |-> <<>>]
        ELSE [kind |-> "return", path |-> arr[2].path]

\* outcome of getMostSimilarPath(p, ps): the path returned, or the error thrown;
\* arr[0].path on an empty arr is a property read of undefined, a TypeError
getMostSimilarPath(p, ps) ==
    LET arr == Sort(Scored(p, ps))
    IN  IF arr = <<>>
        THEN [kind |-> "TypeError", path |-> <<>>]
        ELSE [kind |-> "return", path |-> arr[1].path]

----------------------------------------------------------------------------
(* The disk and the external tools *)

P_ROOT == <<"p">>
Q_ROOT == <<"q">>
P_CFG  == <<"p", "\\", "t", "s", "c">>        \* a tsconfig found in p
Q_CFG  == <<"q", "\\", "t", "s", "c">>        \* a tsconfig found in q
A_TS   == <<"p", "\\", "a", ".", "t", "s">>
B_JS   == <<"p", "\\", "b", ".", "J", "S">>
C_BIN  == <<"p", "\\", "c", ".", "j", "s", "x", "b", "i", "n">>
D_TXT  == <<"p", "\\", "d", ".", "t", "x", "t">>
OUT_A  == <<"p", "\\", "o", "\\", "a", ".", "j", "s">>
OUT_B  == <<"p", "\\", "o", "\\", "b", ".", "j", "s">>

Configs  == {P_CFG, Q_CFG}
Roots    == {P_ROOT, Q_ROOT}
SrcFiles == {A_TS, B_JS}                  \* files a tsc project can list
SrcOrder == <<A_TS, B_JS>>
DocFiles == SrcFiles \cup {C_BIN, D_TXT}  \* files the editor can show
Emitted  == {OUT_A, OUT_B}
OnDisk   == DocFiles \cup Emitted
Times    == 1..MaxTime
Invs     == 1..NumInv

\* fs.existsSync
existsSync(t) == t \in OnDisk

\* path.dirname of a path with a directory part
dirname(p) ==
    LET ks == {k \in 1..Len(p) : IsSep(p[k])}
    IN  IF ks = {} THEN <<".">>
        ELSE SubSeq(p, 1, (CHOOSE k \in ks : \A j \in ks : j <= k) - 1)

\* what tsc prints for a path: forward slashes, the line ended by "\r\n"
TscLine(p) == [k \in 1..Len(p) |-> IF p[k] = "\\" THEN "/" ELSE p[k]] \o <<"\r">>

\* stdout.split('\n') of `tsc --noEmit --listFiles` run in cwd: one line per
\* listed file and the empty text after the last line break
ListStdout(cwd) ==
    LET files == SelectSeq(SrcOrder, LAMBDA f : f \in project[cwd])
    IN  [k \in 1..Len(files) |-> TscLine(files[k])] \o << <<>> >>

\* /^\s+$/.test(text)
IsBlank(t) == t # <<>> /\ \A k \in 1..Len(t) : IsSpace(t[k])

\* the filter of lines 27-32 and 92-97
KeepPath(t) == IF IsBlank(t) THEN FALSE ELSE existsSync(t)

\* getListFiles: the paths the promise resolves with, given the split stdout
getListFiles(lines) ==
    SelectSeq([k \in 1..Len(lines) |-> NormSep(Trim(lines[k]))], KeepPath)

TSFILE == <<"T", "S", "F", "I", "L", "E", ":">>

EmitLine(p) == TSFILE \o <<" ">> \o TscLine(p)

\* stdout.split('\n') of `tsc --listEmittedFiles`: what a compilation may print
CompileStdouts ==
    { << <<>> >>,
      << EmitLine(OUT_A), <<>> >>,
      << EmitLine(OUT_B), EmitLine(OUT_A), <<>> >> }

\* the reduce of lines 80-87
RECURSIVE EmittedOf(_, _, _)
EmittedOf(lines, k, filtered) ==
    IF k > Len(lines) THEN filtered
    ELSE LET text == Trim(lines[k])
         IN  IF StartsWith(text, TSFILE)
             THEN EmittedOf(lines, k + 1,
                            Append(filtered, Trim(SubSeq(text, Len(TSFILE) + 1, Len(text)))))
             ELSE EmittedOf(lines, k + 1, filtered)

\* compileWithEmittedFiles: the paths the promise resolves with
compileWithEmittedFiles(lines) ==
    LET paths == EmittedOf(lines, 1, <<>>)
    IN  SelectSeq([k \in 1..Len(paths) |-> NormSep(paths[k])], KeepPath)

----------------------------------------------------------------------------
(* fileIsListed *)

\* a cache that trusts only positive answers
CacheHit_OnlyFound(fileName, configPath, mtimeMs) ==
    /\ fileName \in DOMAIN CACHE
    /\ CACHE[fileName].found
    /\ CACHE[fileName].configPath = configPath
    /\ configPath \in DOMAIN CONFIG_CACHE
    /\ CONFIG_CACHE[configPath] = mtimeMs

\* a cache that never looks at the modification time
CacheHit_NoStamp(fileName, configPath, mtimeMs) ==
    /\ fileName \in DOMAIN CACHE
    /\ CACHE[fileName].configPath = configPath
    /\ configPath \in DOMAIN CONFIG_CACHE

\* a cache that never looks at the config an entry was written under
CacheHit_AnyConfig(fileName, configPath, mtimeMs) ==
    /\ fileName \in DOMAIN CACHE
    /\ configPath \in DOMAIN CONFIG_CACHE
    /\ CONFIG_CACHE[configPath] = mtimeMs

\* lines 46-54: the cached answer is returned
CacheHit(fileName, configPath, mtimeMs) ==
    /\ fileName \in DOMAIN CACHE
    /\ CACHE[fileName].configPath = configPath
    /\ configPath \in DOMAIN CONFIG_CACHE
    /\ CONFIG_CACHE[configPath] = mtimeMs

\* a miss that forgets to store the modification time
StampConfig_Skip(config, configPath, mtimeMs) == config

\* line 56: CONFIG_CACHE.set(configPath, configStat.mtimeMs)
StampConfig(config, configPath, mtimeMs) == MapSet(config, configPath, mtimeMs)

\* the value of `found` after the loop of lines 60-67
Found(files, fileName) == \E k \in 1..Len(files) : files[k] = fileName

\* a loop that stores nothing for the other files
WarmFrom_None(cache, files, k, fileName, configPath) == cache

\* the entry map after the loop of lines 61-67 has run over files[k..]
RECURSIVE WarmFrom(_, _, _, _, _)
WarmFrom(cache, files, k, fileName, configPath) ==
    IF k > Len(files) THEN cache
    ELSE IF files[k] = fileName
         THEN WarmFrom(cache, files, k + 1, fileName, configPath)
         ELSE WarmFrom(MapSet(cache, files[k], [configPath |-> configPath, found |-> TRUE]),
                       files, k + 1, fileName, configPath)

\* a store that leaves out the queried file's own entry
StoreListing_SkipSelf(cache, files, fileName, configPath) ==
    WarmFrom(cache, files, 1, fileName, configPath)

\* lines 60-68: the entry map once fileIsListed has stored its answer
StoreListing(cache, files, fileName, configPath) ==
    MapSet(WarmFrom(cache, files, 1, fileName, configPath),
           fileName,
           [configPath |-> configPath, found |-> Found(files, fileName)])

----------------------------------------------------------------------------
(* History of calls and invocations *)

IdleInv ==
    [pc |-> "idle", fileName |-> <<>>, configPath |-> <<>>, mtimeMs |-> 0,
     nlist |-> 0, call |-> "none", found |-> FALSE, stdout |-> <<>>, readAt |-> 0,
     pre |-> [cache |-> EmptyMap, config |-> EmptyMap]]

NoCall ==
    [fileName |-> <<>>, configPath |-> <<>>, mtimeMs |-> 0, outcome |-> "none",
     ret |-> FALSE, files |-> {}, nlist |-> 0, rel |-> "other", prevRet |-> FALSE,
     tsAfter |-> 0, mapsSame |-> TRUE, moved |-> FALSE, readAt |-> 0]

NoRun ==
    [fileName |-> <<>>, call |-> "none", found |-> FALSE, warned |-> FALSE,
     compiled |-> FALSE, outputs |-> <<>>, launched |-> 0, target |-> <<>>]

Returned(c) == c.outcome \in {"hit", "miss"}

\* how a completing call (file f, config c, modification time m) follows the
\* call that completed before it
Rel(prev, f, c, m) ==
    IF prev.configPath = c /\ prev.fileName = f /\ Returned(prev) /\ prev.mtimeMs = m
        THEN "repeat"
    ELSE IF prev.configPath = c /\ prev.fileName = f /\ Returned(prev) /\ m # 0
        THEN "changed"
    ELSE IF prev.configPath = c /\ prev.fileName = f /\ prev.outcome = "listfail"
            /\ prev.mtimeMs = m
        THEN "retry"
    ELSE IF prev.configPath = c /\ prev.fileName # f /\ prev.outcome = "miss"
            /\ prev.mtimeMs = m /\ {f, prev.fileName} \subseteq prev.files
        THEN "warm"
    ELSE "other"

Range(s) == {s[k] : k \in 1..Len(s)}

\* the record of inv[i]'s fileIsListed call as it completes, having read the
\* modification time m (0: the read failed), with the maps cache2 and config2
CallRecord(i, m, outcome, ret, files, cache2, config2) ==
    LET r == inv[i]
    IN  [fileName |-> r.fileName, configPath |-> r.configPath, mtimeMs |-> m,
         outcome |-> outcome, ret |-> ret, files |-> Range(files),
         nlist |-> r.nlist,
         rel |-> Rel(last, r.fileName, r.configPath, m),
         prevRet |-> IF Rel(last, r.fileName, r.configPath, m) = "repeat" THEN last.ret ELSE FALSE,
         tsAfter |-> IF r.configPath \in DOMAIN config2 THEN config2[r.configPath] ELSE 0,
         mapsSame |-> (cache2 = r.pre.cache /\ config2 = r.pre.config),
         moved |-> (/\ r.fileName \in DOMAIN r.pre.cache
                    /\ r.pre.cache[r.fileName].configPath # r.configPath),
         readAt |-> IF outcome = "miss" THEN r.readAt ELSE 0]

----------------------------------------------------------------------------
(* The command handler of activate, one action per resumption *)

NoConfig == <<>>

\* /\.(jsx|js)$/i.test(fileName)
IsJs(fileName) ==
    \/ EndsWith(ToLower(fileName), <<".", "j", "s", "x">>)
    \/ EndsWith(ToLower(fileName), <<".", "j", "s">>)

SourceExts ==
    { <<".", "j", "s">>, <<".", "j", "s", "x">>, <<".", "t", "s">>, <<".", "t", "s", "x">> }

JsxBin == <<".", "j", "s", "x", "b", "i", "n">>

\* the handler returns or its catch block has run: the slot is free again
Finish(i, r) ==
    /\ inv' = [inv EXCEPT ![i] = IdleInv]
    /\ run' = r

RunOf(i, call) == [NoRun EXCEPT !.fileName = inv[i].fileName, !.call = call]

\* runScript(aePath, filePath)
runScript(r, filePath) == [r EXCEPT !.launched = @ + 1, !.target = filePath]

\* catch (e) { vscode.window.showWarningMessage(e) }
showWarningMessage(r) == [r EXCEPT !.warned = TRUE]

AllIdle == \A j \in Invs : inv[j].pc = "idle"

\* lines 190-193: the command runs with no active editor
InvokeNoEditor(i) ==
    /\ inv[i].pc = "idle"
    /\ run' = NoRun
    /\ UNCHANGED <<CACHE, CONFIG_CACHE, mtime, project, inv, last, matchVars>>

\* lines 190-195: the command runs on the document fileName; findAePath starts
Invoke(i) ==
    /\ inv[i].pc = "idle"
    /\ \E f \in DocFiles :
          inv' = [inv EXCEPT ![i] = [IdleInv EXCEPT !.pc = "findAe", !.fileName = f]]
    /\ run' = NoRun
    /\ UNCHANGED <<CACHE, CONFIG_CACHE, mtime, project, last, matchVars>>

\* findAePath rejects: After Effects is not running, or the spawn failed
FindAeFail(i) ==
    /\ inv[i].pc = "findAe"
    /\ Finish(i, showWarningMessage(RunOf(i, "none")))
    /\ UNCHANGED <<CACHE, CONFIG_CACHE, mtime, project, last, matchVars>>

\* lines 197-212: findAePath resolved; the switch on the extension
FindAeDone(i) ==
    /\ inv[i].pc = "findAe"
    /\ LET fileName == inv[i].fileName
           fileExt  == ToLower(extname(fileName))
       IN  IF fileExt = JsxBin
           THEN Finish(i, runScript(RunOf(i, "none"), fileName))
           ELSE IF fileExt \in SourceExts
           THEN /\ inv' = [inv EXCEPT ![i].pc = "findConfig"]
                /\ UNCHANGED run
           ELSE Finish(i, RunOf(i, "none"))
    /\ UNCHANGED <<CACHE, CONFIG_CACHE, mtime, project, last, matchVars>>

\* lines 212-219: findConfig resolved with a config path or with none; with
\* one, fileIsListed is entered and issues fs.stat (line 45)
FindConfigDone(i) ==
    /\ inv[i].pc = "findConfig"
    /\ \E configPath \in Configs \cup {NoConfig} :
          IF configPath = NoConfig
          THEN IF IsJs(inv[i].fileName)
               THEN Finish(i, runScript(RunOf(i, "none"), inv[i].fileName))
               ELSE Finish(i, showWarningMessage(RunOf(i, "none")))
          ELSE /\ inv' = [inv EXCEPT ![i].pc = "stat",
                                     ![i].configPath = configPath,
                                     ![i].pre = [cache |-> CACHE, config |-> CONFIG_CACHE]]
               /\ UNCHANGED run
    /\ UNCHANGED <<CACHE, CONFIG_CACHE, mtime, project, last, matchVars>>

\* a handler that takes `found` for `!found` on line 220
Resume_Inverted(i, found, call) ==
    IF found
    THEN IF IsJs(inv[i].fileName)
         THEN Finish(i, runScript([RunOf(i, call) EXCEPT !.found = found], inv[i].fileName))
         ELSE Finish(i, [RunOf(i, call) EXCEPT !.found = found])
    ELSE /\ inv' = [inv EXCEPT ![i] = [IdleInv EXCEPT !.pc = "compile",
                                                       !.fileName = inv[i].fileName,
                                                       !.configPath = inv[i].configPath,
                                                       !.call = call,
                                                       !.found = found]]
         /\ UNCHANGED run

\* lines 220-227: the handler resumes with the answer of fileIsListed
Resume(i, found, call) ==
    IF ~found
    THEN IF IsJs(inv[i].fileName)
         THEN Finish(i, runScript([RunOf(i, call) EXCEPT !.found = found], inv[i].fileName))
         ELSE Finish(i, [RunOf(i, call) EXCEPT !.found = found])
    ELSE /\ inv' = [inv EXCEPT ![i] = [IdleInv EXCEPT !.pc = "compile",
                                                       !.fileName = inv[i].fileName,
                                                       !.configPath = inv[i].configPath,
                                                       !.call = call,
                                                       !.found = found]]
         /\ UNCHANGED run

\* line 45 rejects: the config file cannot be read
StatFail(i) ==
    /\ inv[i].pc = "stat"
    /\ last' = CallRecord(i, 0, "statfail", FALSE, <<>>, CACHE, CONFIG_CACHE)
    /\ Finish(i, showWarningMessage(RunOf(i, "statfail")))
    /\ UNCHANGED <<CACHE, CONFIG_CACHE, mtime, project, matchVars>>

\* a lookup that stores the modification time before it compares it
StatDone_StampFirst(i) ==
    /\ inv[i].pc = "stat"
    /\ LET fileName   == inv[i].fileName
           configPath == inv[i].configPath
           mtimeMs    == mtime[configPath]
           config2    == StampConfig(CONFIG_CACHE, configPath, mtimeMs)
       IN  /\ CONFIG_CACHE' = config2
           /\ IF fileName \in DOMAIN CACHE /\ CACHE[fileName].configPath = configPath
              THEN /\ last' = CallRecord(i, mtimeMs, "hit", CACHE[fileName].found, <<>>,
                                         CACHE, config2)
                   /\ Resume(i, CACHE[fileName].found, "hit")
                   /\ UNCHANGED CACHE
              ELSE /\ inv' = [inv EXCEPT ![i].pc = "list",
                                         ![i].mtimeMs = mtimeMs,
                                         ![i].nlist = @ + 1]
                   /\ UNCHANGED <<CACHE, last, run>>
    /\ UNCHANGED <<mtime, project, matchVars>>

\* lines 45-59: fs.stat resolved (its result is the modification time of this
\* moment); the cached answer is returned, or the modification time is stored
\* and the listing is started
StatDone(i) ==
    /\ inv[i].pc = "stat"
    /\ LET fileName   == inv[i].fileName
           configPath == inv[i].configPath
           mtimeMs    == mtime[configPath]
       IN  IF CacheHit(fileName, configPath, mtimeMs)
           THEN /\ last' = CallRecord(i, mtimeMs, "hit", CACHE[fileName].found, <<>>,
                                      CACHE, CONFIG_CACHE)
                /\ Resume(i, CACHE[fileName].found, "hit")
                /\ UNCHANGED <<CACHE, CONFIG_CACHE>>
           ELSE /\ CONFIG_CACHE' = StampConfig(CONFIG_CACHE, configPath, mtimeMs)
                /\ inv' = [inv EXCEPT ![i].pc = "list",
                                      ![i].mtimeMs = mtimeMs,
                                      ![i].nlist = @ + 1]
                /\ UNCHANGED <<CACHE, last, run>>
    /\ UNCHANGED <<mtime, project, matchVars>>

\* line 16: the tsc process started by getListFiles reads the project; what it
\* prints reflects the disk of this moment, whatever happens before it ends
TscRead(i) ==
    /\ inv[i].pc = "list"
    /\ inv' = [inv EXCEPT ![i].pc = "listed",
                          ![i].stdout = ListStdout(dirname(inv[i].configPath)),
                          ![i].readAt = mtime[inv[i].configPath]]
    /\ UNCHANGED <<CACHE, CONFIG_CACHE, mtime, project, last, run, matchVars>>

\* a failed listing answered as "not listed"
ListFail_AsFalse(i) ==
    /\ inv[i].pc \in {"list", "listed"}
    /\ last' = CallRecord(i, inv[i].mtimeMs, "listfail", FALSE, <<>>, CACHE, CONFIG_CACHE)
    /\ Resume(i, FALSE, "listfail")
    /\ UNCHANGED <<CACHE, CONFIG_CACHE, mtime, project, matchVars>>

\* lines 16-19: tsc ended with an error; getListFiles rejects, fileIsListed
\* rejects, the handler shows the warning
ListFail(i) ==
    /\ inv[i].pc \in {"list", "listed"}
    /\ last' = CallRecord(i, inv[i].mtimeMs, "listfail", FALSE, <<>>, CACHE, CONFIG_CACHE)
    /\ Finish(i, showWarningMessage(RunOf(i, "listfail")))
    /\ UNCHANGED <<CACHE, CONFIG_CACHE, mtime, project, matchVars>>

\* lines 21-34 and 60-69: tsc ended; the listing is stored and answered
ListDone(i) ==
    /\ inv[i].pc = "listed"
    /\ LET fileName   == inv[i].fileName
           configPath == inv[i].configPath
           files      == getListFiles(inv[i].stdout)
           found      == Found(files, fileName)
           cache2     == StoreListing(CACHE, files, fileName, configPath)
       IN  /\ CACHE' = cache2
           /\ last' = CallRecord(i, inv[i].mtimeMs, "miss", found, files,
                                 cache2, CONFIG_CACHE)
           /\ Resume(i, found, "miss")
    /\ UNCHANGED <<CONFIG_CACHE, mtime, project, matchVars>>

\* line 232: the file to launch among one or more compiled files
ChooseTarget(fileName, compiledFiles) ==
    IF Len(compiledFiles) = 1
    THEN compiledFiles[1]
    ELSE getMostSimilarPath(fileName, compiledFiles).path

\* the outcome of an invocation that got as far as the compilation
CompiledRun(i) ==
    [RunOf(i, inv[i].call) EXCEPT !.compiled = TRUE, !.found = inv[i].found]

\* lines 76-78: the compilation ended with an error
CompileFail(i) ==
    /\ inv[i].pc = "compile"
    /\ Finish(i, showWarningMessage(CompiledRun(i)))
    /\ UNCHANGED <<CACHE, CONFIG_CACHE, mtime, project, last, matchVars>>

\* lines 227-233: the compilation ended; the target is chosen and launched
CompileDone(i) ==
    /\ inv[i].pc = "compile"
    /\ \E stdout \in CompileStdouts :
          LET compiledFiles == compileWithEmittedFiles(stdout)
              r             == [CompiledRun(i) EXCEPT !.outputs = compiledFiles]
          IN  IF Len(compiledFiles) = 0
              THEN Finish(i, r)
              ELSE Finish(i, runScript(r, ChooseTarget(inv[i].fileName, compiledFiles)))
    /\ UNCHANGED <<CACHE, CONFIG_CACHE, mtime, project, last, matchVars>>

\* the environment: the config file of p is rewritten; its modification time
\* becomes a later one and the files its project lists may change.  The
\* config of q, the project around p, is left as it is.
ModifyConfig(configPath) ==
    /\ configPath = P_CFG
    /\ mtime[configPath] < MaxTime
    /\ mtime' = [mtime EXCEPT ![configPath] = @ + 1]
    /\ \E files \in SUBSET SrcFiles :
          project' = [project EXCEPT ![dirname(configPath)] = files]
    /\ UNCHANGED <<CACHE, CONFIG_CACHE, inv, last, run, matchVars>>

----------------------------------------------------------------------------
(* The getMostSimilarPath harness: the function applied to bounded inputs *)

NotCalled == [kind |-> "none", path |-> <<>>]

X_TS  == <<"s", "/", "a", "b", ".", "t">>
Y_JS  == <<"o", "/", "a", "b", ".", "j">>
Z_JS  == <<"o", "/", "b", "b", ".", "j">>
W_JS  == <<"b", ".", "j">>
V_DOT == <<"o", ".", "d", "/", "a", "b">>
U_HID == <<".", "a", "b">>
T_JS  == <<"q", "/", "a", "a", ".", "j">>

RefPaths  == {X_TS, V_DOT, U_HID}
CandPaths == {Y_JS, Z_JS, W_JS, V_DOT, U_HID, T_JS}

CandSeqs == UNION {[1..n -> CandPaths] : n \in 0..MaxCands}

Select ==
    /\ mout = NotCalled
    /\ mout' = getMostSimilarPath(mp, mps)
    /\ UNCHANGED <<mp, mps, cacheVars>>

----------------------------------------------------------------------------
(* Specifications *)

InitCache ==
    /\ CACHE = EmptyMap
    /\ CONFIG_CACHE = EmptyMap
    /\ mtime = [c \in Configs |-> 1]
    /\ inv = [i \in Invs |-> IdleInv]
    /\ last = NoCall
    /\ run = NoRun

\* the extension has been activated; p holds any project, q lists every file
Init ==
    /\ InitCache
    /\ project \in {pr \in [Roots -> SUBSET SrcFiles] : pr[Q_ROOT] = SrcFiles}
    /\ mp = <<>>
    /\ mps = <<>>
    /\ mout = NotCalled

Step(i) ==
    \/ FindAeFail(i)
    \/ FindAeDone(i)
    \/ FindConfigDone(i)
    \/ StatFail(i)
    \/ StatDone(i)
    \/ TscRead(i)
    \/ ListFail(i)
    \/ ListDone(i)
    \/ CompileFail(i)
    \/ CompileDone(i)

\* one command invocation in flight at a time: the first slot serves them all
Next ==
    \/ InvokeNoEditor(1)
    \/ Invoke(1)
    \/ Step(1)
    \/ \E c \in Configs : ModifyConfig(c)

Spec == Init /\ [][Next]_vars

\* as Spec, with tools that never fail: every read of a modification time and
\* every listing succeeds
StepReliable(i) ==
    \/ FindAeFail(i)
    \/ FindAeDone(i)
    \/ FindConfigDone(i)
    \/ StatDone(i)
    \/ TscRead(i)
    \/ ListDone(i)
    \/ CompileFail(i)
    \/ CompileDone(i)

NextReliable ==
    \/ InvokeNoEditor(1)
    \/ Invoke(1)
    \/ StepReliable(1)
    \/ \E c \in Configs : ModifyConfig(c)

SpecReliable == Init /\ [][NextReliable]_vars

\* every invocation in flight runs on the document a.ts under p's config
OneDocument ==
    \A j \in Invs : /\ inv[j].fileName \in {<<>>, A_TS}
                    /\ inv[j].configPath \in {NoConfig, P_CFG}

\* lines 190-195, the command run on the document a.ts
InvokeDocument(i) == Invoke(i) /\ OneDocument'

\* lines 212-219, findConfig finding p's config, or none
FindOwnConfig(i) == FindConfigDone(i) /\ OneDocument'

\* the resumptions of an invocation on a.ts, with tools that never fail
StepConc(i) ==
    \/ FindAeFail(i)
    \/ FindAeDone(i)
    \/ FindOwnConfig(i)
    \/ StatDone(i)
    \/ TscRead(i)
    \/ ListDone(i)
    \/ CompileFail(i)
    \/ CompileDone(i)

\* the command may be run again while earlier invocations are suspended: the
\* handler is async and nothing in it waits for an earlier invocation
NextConc ==
    \/ \E i \in Invs : InvokeNoEditor(i)
    \/ \E i \in Invs : InvokeDocument(i)
    \/ \E i \in Invs : StepConc(i)
    \/ \E c \in Configs : ModifyConfig(c)

SpecConc == Init /\ [][NextConc]_vars

InitMatch ==
    /\ InitCache
    /\ project = [r \in Roots |-> SrcFiles]
    /\ mp \in RefPaths
    /\ mps \in CandSeqs
    /\ mout = NotCalled

NextMatch == Select

SpecMatch == InitMatch /\ [][NextMatch]_vars

----------------------------------------------------------------------------
(* Claims about the membership cache, checked under Spec *)

\* what the listing of configPath's project yields for fileName on the disk as
\* it is now
Listed(fileName, configPath) ==
    Found(getListFiles(ListStdout(dirname(configPath))), fileName)

\* inv[i]'s fileIsListed call returns the cached answer in this step
ReturnsCached(i) ==
    /\ inv[i].pc = "stat"
    /\ inv'[i].pc \notin {"stat", "list"}
    /\ last'.outcome = "hit"

\* C1: whenever fileIsListed(F, C) returns a value from the cache, the value is
\* F's membership in what the listing yields for C at C's current modification
\* time.  Checked under SpecReliable: no listing fails on the way.
C1_CachedAnswerIsCurrent ==
    [][\A i \in Invs :
          ReturnsCached(i) => last'.ret = Listed(inv[i].fileName, inv[i].configPath)]_vars

\* C2: a call whose listing failed leaves the entry map and the timestamp map
\* exactly as they were before the call.
C2_FailedListingLeavesMaps ==
    last.outcome = "listfail" => last.mapsSame

\* C3: the call that follows a call whose listing failed, for the same file and
\* config at the same modification time, invokes the listing again and does not
\* answer from the cache.
C3_RetryListsAgain ==
    last.rel = "retry" => (last.nlist = 1 /\ last.outcome # "hit")

\* C4: the call that follows a successful call for the same file and config at
\* the same modification time invokes no listing and returns the same boolean.
C4_RepeatIsHit ==
    last.rel = "repeat" =>
        (last.outcome = "hit" /\ last.nlist = 0 /\ last.ret = last.prevRet)

\* both answers occur: a repeated call that answers FALSE after a miss is the
\* case a cache of positive answers only would get wrong
C4_Witness ==
    /\ last.rel = "repeat"
    /\ last.outcome = "hit"
    /\ ~last.ret

\* the timestamp stored for the call's config when the call began, 0 if none
StampBefore(i) ==
    IF inv[i].configPath \in DOMAIN inv[i].pre.config
    THEN inv[i].pre.config[inv[i].configPath]
    ELSE 0

\* the call's file had an entry associated with the call's config when the
\* call began
EntryBefore(i) ==
    /\ inv[i].fileName \in DOMAIN inv[i].pre.cache
    /\ inv[i].pre.cache[inv[i].fileName].configPath = inv[i].configPath

\* C5 as stated: the listing is invoked only when the modification time differs
\* from the stored timestamp, whatever is known about the file.
C5_ListsOnlyOnChange ==
    \A i \in Invs : inv[i].pc = "list" => StampBefore(i) # inv[i].mtimeMs

\* C5 as amended: the listing is invoked only when the modification time
\* differs from the stored timestamp or the file has no entry associated with
\* the config; with an associated entry and an equal timestamp no listing is
\* invoked.
C5_ListsOnlyOnChangeOrNoEntry ==
    /\ \A i \in Invs :
          inv[i].pc = "list" => (StampBefore(i) # inv[i].mtimeMs \/ ~EntryBefore(i))
    /\ (last.outcome = "hit" => last.nlist = 0)

\* a listing started although the stored timestamp was the current one,
\* because the file's entry (its answer: not listed) belonged to the other
\* config
C5_Witness ==
    \E i \in Invs :
        /\ inv[i].pc = "list"
        /\ StampBefore(i) = inv[i].mtimeMs
        /\ inv[i].fileName \in DOMAIN inv[i].pre.cache
        /\ ~inv[i].pre.cache[inv[i].fileName].found
        /\ ~EntryBefore(i)

\* C6: when the modification time changed between two successive successful
\* calls for the same file and config, the second call invokes the listing
\* exactly once and leaves the new modification time stored for the config.
C6_ChangeListsOnce ==
    (last.rel = "changed" /\ Returned(last)) =>
        (last.outcome = "miss" /\ last.nlist = 1 /\ last.tsAfter = last.mtimeMs)

C6_Witness ==
    /\ last.rel = "changed"
    /\ last.outcome = "miss"
    /\ last.tsAfter = last.mtimeMs
    /\ last.mtimeMs > 1

\* C7: a miss for B whose listing holds A and B returns TRUE, and the call for
\* A that follows at the same modification time returns TRUE without a
\* listing.
C7_WarmedIsHit ==
    /\ (last.outcome = "miss" => last.ret = (last.fileName \in last.files))
    /\ (last.rel = "warm" => (last.outcome = "hit" /\ last.ret /\ last.nlist = 0))

C7_Witness ==
    /\ last.rel = "warm"
    /\ last.outcome = "hit"
    /\ last.ret

\* C8: a failure of fileIsListed never becomes a boolean: a failed read of the
\* modification time invokes no listing and changes neither map, and after a
\* failed read or a failed listing the handler shows the warning, starts no
\* compilation and launches no script.
C8_FailurePropagates ==
    /\ (last.outcome = "statfail" => (last.nlist = 0 /\ last.mapsSame))
    /\ (run.call \in {"statfail", "listfail"} =>
            (run.warned /\ ~run.compiled /\ run.launched = 0 /\ run.target = <<>>))

\* the listing failed for a .js file, which an answer of "not listed" would
\* have launched
C8_Witness ==
    /\ run.call = "listfail"
    /\ IsJs(run.fileName)
    /\ run.warned
    /\ run.launched = 0

----------------------------------------------------------------------------
(* Claims about getMostSimilarPath, checked under SpecMatch *)

\* the number of characters on which a and b agree, counted back from their
\* last characters
SuffixAgreement(a, b) ==
    LET ns == {n \in 0..Min(Len(a), Len(b)) :
                  \A j \in 1..n : a[Len(a) - j + 1] = b[Len(b) - j + 1]}
    IN  CHOOSE n \in ns : \A m \in ns : m <= n

Alignment(k) == SuffixAgreement(removeExt(mp), removeExt(mps[k]))

\* the first of the candidates whose alignment with mp is maximal
FirstBest ==
    CHOOSE k \in 1..Len(mps) :
        /\ \A j \in 1..Len(mps) : Alignment(j) <= Alignment(k)
        /\ \A j \in 1..(k - 1) : Alignment(j) < Alignment(k)

\* C9: for a non-empty candidate sequence the candidate returned has the
\* maximal suffix-alignment score and is the first of those that have it; it
\* is the first candidate when every score is 0.
C9_FirstBestIsSelected ==
    (mout # NotCalled /\ mps # <<>>) =>
        /\ mout.kind = "return"
        /\ mout.path = mps[FirstBest]
        /\ ((\A k \in 1..Len(mps) : Alignment(k) = 0) => mout.path = mps[1])

\* the best score is positive, two different candidates share it, and the one
\* returned is not the first candidate
C9_Witness ==
    /\ mout.kind = "return"
    /\ Len(mps) = 3
    /\ Alignment(1) < Alignment(2)
    /\ Alignment(2) = Alignment(3)
    /\ mps[2] # mps[3]
    /\ mout.path = mps[2]

\* C10: called with no candidate, getMostSimilarPath fails with an
\* InvalidArgument error.
C10_EmptyIsInvalidArgument ==
    (mout # NotCalled /\ mps = <<>>) => mout.kind = "InvalidArgument"

----------------------------------------------------------------------------
(* the command handler and getMostSimilarPath *)

\* C11: called with exactly one candidate X, getMostSimilarPath returns X
\* whatever the reference path is, which is the file the handler's shortcut
\* for a single compiled file (line 232) selects.
C11_ShortcutAgrees ==
    (mout # NotCalled /\ Len(mps) = 1) =>
        /\ mout.kind = "return"
        /\ mout.path = mps[1]
        /\ ChooseTarget(mp, mps) = mout.path

\* one candidate that shares nothing with the reference path was given, and
\* it was returned
C11_Witness ==
    /\ mout.kind = "return"
    /\ Len(mps) = 1
    /\ Alignment(1) = 0
    /\ mout.path = mps[1]

----------------------------------------------------------------------------
(* the effect of fileIsListed on the two maps *)

\* the step in which inv[i]'s listing ends and its result is stored
StoresListing(i) ==
    /\ inv[i].pc = "listed"
    /\ inv'[i].pc # "listed"
    /\ last'.outcome = "miss"

\* the map m2 agrees with the map m1 on every key outside keys
SameOutside(m1, m2, keys) ==
    /\ DOMAIN m1 \ keys = DOMAIN m2 \ keys
    /\ \A k \in DOMAIN m1 \ keys : m2[k] = m1[k]

\* C12: when fileIsListed(F, C) misses and its listing returns L, then on
\* return the timestamp stored for C is the modification time the call read,
\* every path of L other than F has the entry (C, true), F has the entry
\* (C, F in L), the call returns F in L, and the entries of all other paths and
\* the timestamps of all other configs are the ones of before the call.
C12_MissPostcondition ==
    [][\A i \in Invs : StoresListing(i) =>
        LET F == inv[i].fileName
            C == inv[i].configPath
            L == Range(getListFiles(inv[i].stdout))
        IN  /\ C \in DOMAIN CONFIG_CACHE'
            /\ CONFIG_CACHE'[C] = inv[i].mtimeMs
            /\ L \cup {F} \subseteq DOMAIN CACHE'
            /\ \A P \in L \ {F} : CACHE'[P] = [configPath |-> C, found |-> TRUE]
            /\ CACHE'[F] = [configPath |-> C, found |-> (F \in L)]
            /\ last'.ret = (F \in L)
            /\ SameOutside(inv[i].pre.cache, CACHE', L \cup {F})
            /\ SameOutside(inv[i].pre.config, CONFIG_CACHE', {C})]_vars

\* a miss has stored the answer "not listed" for the queried file and left
\* alone the entry another path has under another config, and that config's
\* timestamp
C12_Witness ==
    /\ last.outcome = "miss"
    /\ ~last.ret
    /\ CACHE[last.fileName] = [configPath |-> last.configPath, found |-> FALSE]
    /\ CONFIG_CACHE[last.configPath] = last.mtimeMs
    /\ \E P \in DOMAIN CACHE :
           /\ P \notin last.files \cup {last.fileName}
           /\ CACHE[P].configPath # last.configPath
           /\ CACHE[P].configPath \in DOMAIN CONFIG_CACHE

\* C16: a call of fileIsListed that answers from the cache writes nothing:
\* the entry map and the timestamp map are, when it returns, the maps of
\* before the call.
C16_HitIsReadOnly ==
    last.outcome = "hit" => last.mapsSame

\* a call answered "not listed" from the cache, with entries of two paths and
\* the timestamps of two configs in the maps, none of them touched
C16_Witness ==
    /\ last.outcome = "hit"
    /\ ~last.ret
    /\ last.mapsSame
    /\ Cardinality(DOMAIN CACHE) = 2
    /\ Cardinality(DOMAIN CONFIG_CACHE) = 2

\* C17: fileIsListed(F, C) answers from the cache only with an entry written
\* under C; when the entry F had at the start of the call was written under
\* another config, a call that returns has listed, once, and F's entry is then
\* the one written under C.
C17_AnswerUnderOwnConfig ==
    /\ last.outcome = "hit" =>
           /\ ~last.moved
           /\ CACHE[last.fileName].configPath = last.configPath
    /\ (last.moved /\ Returned(last)) =>
           /\ last.outcome = "miss"
           /\ last.nlist = 1
           /\ CACHE[last.fileName] = [configPath |-> last.configPath, found |-> last.ret]

\* a file whose entry was written under another config has been queried: the
\* call listed and answered "listed", and the entry is now under its config
C17_Witness ==
    /\ last.moved
    /\ last.outcome = "miss"
    /\ last.ret
    /\ last.nlist = 1
    /\ CACHE[last.fileName].configPath = last.configPath

----------------------------------------------------------------------------
(* one invocation of the command *)

\* the fileIsListed call of the invocation returned
Answered(call) == call \in {"hit", "miss"}

\* C15: in an invocation for a file whose config was found, the compilation
\* starts only after fileIsListed has returned true; at most one script is
\* launched; nothing is launched when the compilation emitted no file; and
\* when fileIsListed returned false the compilation never starts and a launch
\* happens only for a .js/.jsx file, of that file itself.
C15_LaunchDiscipline ==
    /\ \A i \in Invs : inv[i].pc = "compile" => (Answered(inv[i].call) /\ inv[i].found)
    /\ run.compiled => (Answered(run.call) /\ run.found)
    /\ run.launched <= 1
    /\ (run.compiled /\ run.outputs = <<>>) => run.launched = 0
    /\ (Answered(run.call) /\ ~run.found) =>
           /\ ~run.compiled
           /\ run.launched = 1 => (IsJs(run.fileName) /\ run.target = run.fileName)
           /\ run.launched = 0 => ~IsJs(run.fileName)

\* a .JS file that its config does not list was launched as it is, after a
\* listing, with no compilation
C15_Witness ==
    /\ run.call = "miss"
    /\ ~run.found
    /\ ~run.compiled
    /\ run.launched = 1
    /\ run.target = run.fileName
    /\ IsJs(run.fileName)

----------------------------------------------------------------------------
(* overlapping invocations *)

\* the invocations whose listing (the tsc process of getListFiles) is running
Listing == {i \in Invs : inv[i].pc \in {"list", "listed"}}

\* C13: at most one listing is in flight at any time, also when the command
\* is run again while an earlier invocation is still suspended.
C13_OneListingInFlight ==
    Cardinality(Listing) <= 1

\* C14: once overlapping calls of fileIsListed(F, C) have all completed, the
\* entry of F is not one written from a listing older than the modification
\* time stored for C: the listing stored last reflects the config as it was
\* at the stored modification time, or later.
C14_NoStaleWriteAfterOverlap ==
    (AllIdle /\ last.outcome = "miss") =>
        /\ last.configPath \in DOMAIN CONFIG_CACHE
        /\ last.readAt >= CONFIG_CACHE[last.configPath]

====
